---- MODULE Spec2Model ----
(***************************************************************************)
(* Model of the em5820 thermal printer tools: the Printer class            *)
(* (src/printer.hpp), the image printing program (src/main.cpp) and the    *)
(* text printing program (src/print_text.cpp).                             *)
(***************************************************************************)
EXTENDS Integers, Sequences, FiniteSets, TLC

(***************************************************************************)
(* IEEE-754 binary32 arithmetic, round to nearest even.  A float is        *)
(* [m, e] with value m * 2^e; m = 0 (and e = 0) or 2^23 <= |m| < 2^24.     *)
(* The values the programs compute stay far from the subnormal and the     *)
(* overflow range, so the exponent is not bounded here.  Every             *)
(* intermediate integer stays below 2^31.                                  *)
(***************************************************************************)
Abs(n) == IF n < 0 THEN -n ELSE n

Sgn(n) == IF n < 0 THEN -1 ELSE 1

RECURSIVE BitLen(_)
BitLen(n) == IF n = 0 THEN 0 ELSE 1 + BitLen(n \div 2)

FZero == [m |-> 0, e |-> 0]

\* Round the integer M (scaled by 2^E) to 24 significant bits, ties to even.
\* A caller's sticky bit is jammed into the lowest bit of M; such an M always
\* has at least 27 bits, so the jammed bit only ever breaks a tie.
FRound(M, E) ==
  IF M = 0 THEN FZero
  ELSE LET a == Abs(M)
           n == BitLen(a)
       IN IF n <= 24
          THEN [m |-> Sgn(M) * a * 2^(24 - n), e |-> E - (24 - n)]
          ELSE LET k    == n - 24
                   q    == a \div 2^k
                   r    == a % 2^k
                   half == 2^(k - 1)
                   q1   == IF r > half \/ (r = half /\ q % 2 = 1)
                           THEN q + 1 ELSE q
               IN IF q1 = 2^24
                  THEN [m |-> Sgn(M) * 2^23, e |-> E + k + 1]
                  ELSE [m |-> Sgn(M) * q1, e |-> E + k]

\* int -> float conversion (static_cast<float>, or the usual arithmetic
\* conversion of an int operand).
FromInt(n) == FRound(n, 0)

FOne == FromInt(1)

FHalf == [m |-> 2^23, e |-> -24]

FNeg(a) == [m |-> -a.m, e |-> a.e]

\* a + b, a.e >= b.e, both non-zero.
FAddOrdered(a, b) ==
  LET d == a.e - b.e
  IN IF d <= 3
     THEN FRound(a.m * 2^d + b.m, b.e)
     ELSE LET sh     == d - 3
              bq     == IF sh >= 24 THEN 0 ELSE Abs(b.m) \div 2^sh
              sticky == IF sh >= 24 THEN 1
                        ELSE IF Abs(b.m) % 2^sh # 0 THEN 1 ELSE 0
              A      == Abs(a.m) * 16
              B      == 2 * bq + sticky
              S      == IF Sgn(a.m) = Sgn(b.m) THEN A + B ELSE A - B
          IN FRound(Sgn(a.m) * S, a.e - 4)

FAdd(a, b) ==
  IF a.m = 0 THEN b
  ELSE IF b.m = 0 THEN a
  ELSE IF a.e >= b.e THEN FAddOrdered(a, b) ELSE FAddOrdered(b, a)

FSub(a, b) == FAdd(a, FNeg(b))

\* a * b: the 48-bit product of the mantissas, built from 12-bit limbs.
FMul(a, b) ==
  IF a.m = 0 \/ b.m = 0 THEN FZero
  ELSE LET ma  == Abs(a.m)
           mb  == Abs(b.m)
           ah  == ma \div 4096
           al  == ma % 4096
           bh  == mb \div 4096
           bl  == mb % 4096
           lo  == al * bl
           mid == ah * bl + al * bh + (lo \div 4096)
           hi  == ah * bh + (mid \div 4096)
           low == (mid % 4096) * 4096 + (lo % 4096)
           X   == hi * 16 + (low \div 2^20)
           st  == IF low % 2^20 # 0 THEN 1 ELSE 0
       IN FRound(Sgn(a.m) * Sgn(b.m) * (2 * X + st), a.e + b.e + 19)

\* n steps of binary long division of remainder r by d; <<quotient, remainder>>.
RECURSIVE LongDiv(_, _, _, _)
LongDiv(q, r, d, n) ==
  IF n = 0 THEN <<q, r>>
  ELSE IF 2 * r >= d
       THEN LongDiv(2 * q + 1, 2 * r - d, d, n - 1)
       ELSE LongDiv(2 * q, 2 * r, d, n - 1)

\* a / b, b non-zero.
FDiv(a, b) ==
  IF a.m = 0 THEN FZero
  ELSE LET ma == Abs(a.m)
           mb == Abs(b.m)
           qr == LongDiv(ma \div mb, ma % mb, mb, 26)
           st == IF qr[2] # 0 THEN 1 ELSE 0
       IN FRound(Sgn(a.m) * Sgn(b.m) * (2 * qr[1] + st), a.e - b.e - 27)

FGt(a, b) == FSub(a, b).m > 0

FLt(a, b) == FSub(a, b).m < 0

\* float -> int conversion (static_cast<int>): truncation toward zero.
FTrunc(a) ==
  IF a.e >= 0 THEN a.m * 2^(a.e)
  ELSE IF -a.e >= 24 THEN 0
  ELSE Sgn(a.m) * (Abs(a.m) \div 2^(-a.e))

(***************************************************************************)
(* State.                                                                  *)
(***************************************************************************)
VARIABLES
  pcD,           \* position in the image pipeline / dither_image
  width,         \* raster width handed to dither_image
  height,        \* raster height handed to dither_image
  grayscale,     \* the caller's raster (dither_image's const reference)
  working_copy,  \* dither_image's private copy
  bitmap,        \* dither_image's packed output
  x, y,          \* loop counters of dither_image
  lastWrites,    \* the neighbour updates made by the latest loop iteration
  img,           \* the decoded image: width, height, channels, pixels
  max_width,     \* load_and_process_image's max_width
  scale,         \* load_and_process_image's scale
  prog,          \* which program runs: "image" (main.cpp) or "text" (print_text.cpp)
  pc,            \* main's position
  exc,           \* an exception is propagating to main's catch
  status,        \* the exit status, "running" until main returns
  opts,          \* print_text's parsed options
  lines,         \* the lines still to be read from stdin
  line,          \* print_text's line
  first_line,    \* print_text's first_line
  job,           \* the arguments of main's bitmap call
  evalOrder,     \* operand order the build gives print_bitmap's sum
  ctx,           \* Printer::ctx
  dev_handle,    \* Printer::dev_handle
  usb,           \* what libusb and the device hold for this process
  wb,            \* the write_bytes call in progress
  calls,         \* write_bytes calls made so far
  returned,      \* write_bytes calls that returned or threw
  wire           \* the outbound bulk transfers, in order

dvars == <<pcD, width, height, grayscale, working_copy, bitmap, x, y,
           lastWrites>>

ivars == <<img, max_width, scale>>

cvars == <<prog, pc, exc, status, opts, lines, line, first_line, job,
           evalOrder, ctx, dev_handle, usb, wb, calls, returned, wire>>

vars == <<dvars, ivars, cvars>>

\* No write_bytes call in progress.
NoCall == [active |-> FALSE, kind |-> "none", data |-> <<>>, phase |-> "none",
           reads |-> 0, lastIn |-> <<>>]

\* libusb holds nothing for the process and the device is untouched.
NoUsb == [ctxLive |-> FALSE, listHeld |-> FALSE, handleOpen |-> FALSE,
          claimed |-> FALSE, detached |-> FALSE]

NoOpts == [bold |-> FALSE, underline |-> FALSE, double_width |-> FALSE,
           double_height |-> FALSE, alignment |-> 0, feed_lines |-> 0]

NoJob == [mode |-> 0, width |-> 0, height |-> 0, bitmap |-> <<>>]

\* The command-line programs are not part of the pipeline checks.
CliIdle ==
  /\ prog = "none"
  /\ pc = "none"
  /\ exc = FALSE
  /\ status = "running"
  /\ opts = NoOpts
  /\ lines = <<>>
  /\ line = <<>>
  /\ first_line = TRUE
  /\ job = NoJob
  /\ evalOrder = "lr"
  /\ ctx = "nullptr"
  /\ dev_handle = "nullptr"
  /\ usb = NoUsb
  /\ wb = NoCall
  /\ calls = 0
  /\ returned = 0
  /\ wire = <<>>

(***************************************************************************)
(* dither_image (src/main.cpp).                                            *)
(***************************************************************************)
MaxWidth == 9
MaxHeight == 2

\* 0.25f, 0.75f: further sample values for the rasters of the dither check.
FQuarter == [m |-> 2^23, e |-> -25]

FThreeQuarters == [m |-> 3 * 2^22, e |-> -24]

SampleValues == {FZero, FQuarter, FHalf, FThreeQuarters, FOne}

Uniform(w, h, v) == [i \in 0 .. w * h - 1 |-> v]

Checker(w, h, p) ==
  [i \in 0 .. w * h - 1 |->
     IF ((i % w) + (i \div w) + p) % 2 = 0 THEN FZero ELSE FOne]

Rasters(w, h) ==
  {Uniform(w, h, v) : v \in SampleValues} \cup {Checker(w, h, p) : p \in {0, 1}}

\* Variant: the row size rounded down.
BytesPerRowFloor(w) == w \div 8

\* bytes_per_row = (width + 7) / 8
BytesPerRow(w) == (w + 7) \div 8

\* Variant: the comparison >= 0.5f.
QuantizeTieWhite(old_pixel) == IF FLt(old_pixel, FHalf) THEN FZero ELSE FOne

\* new_pixel = old_pixel > 0.5f ? 1.0f : 0.0f
Quantize(old_pixel) == IF FGt(old_pixel, FHalf) THEN FOne ELSE FZero

\* bitmap[byte_idx] |= (1 << bit_idx)
OrBit(b, bit_idx) ==
  IF (b \div 2^bit_idx) % 2 = 1 THEN b ELSE b + 2^bit_idx

\* Variant: bit 0 holds the leftmost pixel of a group.
SetBitLsbFirst(bm, px, py, w) ==
  LET byte_idx == py * BytesPerRow(w) + (px \div 8)
      bit_idx  == px % 8
  IN [bm EXCEPT ![byte_idx] = OrBit(@, bit_idx)]

SetBit(bm, px, py, w) ==
  LET byte_idx == py * BytesPerRow(w) + (px \div 8)
      bit_idx  == 7 - (px % 8)
  IN [bm EXCEPT ![byte_idx] = OrBit(@, bit_idx)]

\* Variant: the column of a neighbour is not tested against the raster.
TargetsUnguarded(px, py, w, h) ==
  LET idx == py * w + px
  IN SelectSeq(
       << [at |-> idx + 1,     tx |-> px + 1, ty |-> py,     k |-> 7,
           ok |-> TRUE],
          [at |-> idx + w - 1, tx |-> px - 1, ty |-> py + 1, k |-> 3,
           ok |-> py + 1 < h],
          [at |-> idx + w,     tx |-> px,     ty |-> py + 1, k |-> 5,
           ok |-> py + 1 < h],
          [at |-> idx + w + 1, tx |-> px + 1, ty |-> py + 1, k |-> 1,
           ok |-> py + 1 < h] >>,
       LAMBDA t : t.ok)

\* The neighbour updates of one pixel, in program order: the index written
\* (idx + off), the coordinate it is meant for and the weight k/16.
Targets(px, py, w, h) ==
  LET idx == py * w + px
  IN SelectSeq(
       << [at |-> idx + 1,     tx |-> px + 1, ty |-> py,     k |-> 7,
           ok |-> px + 1 < w],
          [at |-> idx + w - 1, tx |-> px - 1, ty |-> py + 1, k |-> 3,
           ok |-> py + 1 < h /\ px > 0],
          [at |-> idx + w,     tx |-> px,     ty |-> py + 1, k |-> 5,
           ok |-> py + 1 < h],
          [at |-> idx + w + 1, tx |-> px + 1, ty |-> py + 1, k |-> 1,
           ok |-> py + 1 < h /\ px + 1 < w] >>,
       LAMBDA t : t.ok)

\* working_copy[at] += error * k.0f / 16.0f
RECURSIVE Diffuse(_, _, _)
Diffuse(wc, ts, error) ==
  IF ts = <<>> THEN wc
  ELSE LET t   == Head(ts)
           inc == FDiv(FMul(error, FromInt(t.k)), FromInt(16))
       IN Diffuse([wc EXCEPT ![t.at] = FAdd(@, inc)], Tail(ts), error)

\* Entry of dither_image: the copy and the zeroed bitmap.
DitherBegin ==
  /\ pcD = "call"
  /\ working_copy' = grayscale
  /\ bitmap' = [i \in 0 .. BytesPerRow(width) * height - 1 |-> 0]
  /\ x' = 0
  /\ y' = 0
  /\ lastWrites' = {}
  /\ pcD' = IF height > 0 /\ width > 0 THEN "dither" ELSE "done"
  /\ UNCHANGED <<width, height, grayscale, ivars, cvars>>

\* One iteration of the inner loop, with the loop increments.
DitherStep ==
  /\ pcD = "dither"
  /\ LET idx       == y * width + x
         old_pixel == working_copy[idx]
         new_pixel == Quantize(old_pixel)
         error     == FSub(old_pixel, new_pixel)
         ts        == Targets(x, y, width, height)
     IN /\ bitmap' = IF FLt(new_pixel, FHalf)
                     THEN SetBit(bitmap, x, y, width) ELSE bitmap
        /\ working_copy' = Diffuse(working_copy, ts, error)
        /\ lastWrites' = {[at |-> ts[i].at, tx |-> ts[i].tx, ty |-> ts[i].ty] :
                            i \in 1 .. Len(ts)}
  /\ IF x + 1 < width
     THEN x' = x + 1 /\ y' = y /\ pcD' = "dither"
     ELSE /\ x' = 0
          /\ y' = y + 1
          /\ pcD' = IF y + 1 < height THEN "dither" ELSE "done"
  /\ UNCHANGED <<width, height, grayscale, ivars, cvars>>

\* No image is involved when dither_image is exercised on its own.
NoImage == [width |-> 0, height |-> 0, channels |-> 1, pixels |-> <<>>]

InitDither ==
  /\ pcD = "call"
  /\ width \in 1 .. MaxWidth
  /\ height \in 1 .. MaxHeight
  /\ grayscale \in Rasters(width, height)
  /\ working_copy = <<>>
  /\ bitmap = <<>>
  /\ x = 0
  /\ y = 0
  /\ lastWrites = {}
  /\ CliIdle
  /\ img = NoImage
  /\ max_width = 0
  /\ scale = FOne

NextDither == DitherBegin \/ DitherStep

SpecDither == InitDither /\ [][NextDither]_vars

(***************************************************************************)
(* load_and_process_image and rgb_to_gray (src/main.cpp).                  *)
(***************************************************************************)
Min(a, b) == IF a < b THEN a ELSE b

\* The float literals 0.299f, 0.587f and 0.114f.
Luma_R == [m |-> 10032775, e |-> -25]

Luma_G == [m |-> 9848226, e |-> -24]

Luma_B == [m |-> 15300821, e |-> -27]

\* std::pow(v, 1.0f / 2.2f) at the two arguments where the result is exact
\* whatever the libm: pow(+0, y) = +0 for y > 0 and pow(1, y) = 1.  The images
\* of this model are pure black and white, so no other argument occurs.
PowInvGamma(v) == CASE v = FZero -> FZero [] v = FOne -> FOne

rgb_to_gray(r, g, b) ==
  LET gray == FAdd(FAdd(FMul(Luma_R, FromInt(r)), FMul(Luma_G, FromInt(g))),
                   FMul(Luma_B, FromInt(b)))
  IN PowInvGamma(FDiv(gray, FromInt(255)))

\* scale = 1.0f; if (width > max_width) scale = (float)max_width / width
Scale(w, mw) == IF w > mw THEN FDiv(FromInt(mw), FromInt(w)) ELSE FOne

\* static_cast<int>(height * scale)
ScaledHeight(w, h, mw) == FTrunc(FMul(FromInt(h), Scale(w, mw)))

\* static_cast<int>(width * scale), made a multiple of 8, 8 when that is 0
ScaledWidth(w, mw) ==
  LET sw == (FTrunc(FMul(FromInt(w), Scale(w, mw))) \div 8) * 8
  IN IF sw = 0 THEN 8 ELSE sw

\* The grayscale sample of destination pixel (dx, dy).
Sample(im, sc, dx, dy) ==
  LET src_x   == Min(FTrunc(FDiv(FromInt(dx), sc)), im.width - 1)
      src_y   == Min(FTrunc(FDiv(FromInt(dy), sc)), im.height - 1)
      src_idx == (src_y * im.width + src_x) * im.channels
  IN IF im.channels <= 2
     THEN rgb_to_gray(im.pixels[src_idx], im.pixels[src_idx], im.pixels[src_idx])
     ELSE rgb_to_gray(im.pixels[src_idx], im.pixels[src_idx + 1],
                      im.pixels[src_idx + 2])

\* Lines 82-96: the scale and the scaled size.
ScaleStep ==
  /\ pcD = "load"
  /\ scale' = Scale(img.width, max_width)
  /\ width' = ScaledWidth(img.width, max_width)
  /\ height' = ScaledHeight(img.width, img.height, max_width)
  /\ pcD' = "resample"
  /\ UNCHANGED <<grayscale, working_copy, bitmap, x, y, lastWrites, img,
                 max_width, cvars>>

\* Lines 98-135: the grayscale raster, then the call of dither_image.
ResampleStep ==
  /\ pcD = "resample"
  /\ grayscale' = [i \in 0 .. width * height - 1 |->
                     Sample(img, scale, i % width, i \div width)]
  /\ pcD' = "call"
  /\ UNCHANGED <<width, height, working_copy, bitmap, x, y, lastWrites, ivars,
                 cvars>>

\* Decoded images: pure black and white pixels; the alpha byte of 2- and
\* 4-channel images is 128.
PixelValue(pattern, px, py) ==
  CASE pattern = "black"    -> 0
    [] pattern = "white"    -> 255
    [] pattern = "checker0" -> IF (px + py) % 2 = 0 THEN 0 ELSE 255
    [] pattern = "checker1" -> IF (px + py) % 2 = 0 THEN 255 ELSE 0

Image(w, h, c, pattern) ==
  [width |-> w, height |-> h, channels |-> c,
   pixels |-> [i \in 0 .. w * h * c - 1 |->
                 IF (c = 2 /\ i % c = 1) \/ (c = 4 /\ i % c = 3) THEN 128
                 ELSE PixelValue(pattern, (i \div c) % w, (i \div c) \div w)]]

Patterns == {"black", "white", "checker0", "checker1"}

ImageSizes == {<<4, 4>>, <<8, 2>>, <<3, 1>>, <<12, 3>>, <<17, 2>>}

MaxWidths == {8, 16}

InitPipeline ==
  /\ pcD = "load"
  /\ \E d \in ImageSizes, c \in 1 .. 4, p \in Patterns :
       img = Image(d[1], d[2], c, p)
  /\ max_width \in MaxWidths
  /\ scale = FOne
  /\ width = 0
  /\ height = 0
  /\ grayscale = <<>>
  /\ working_copy = <<>>
  /\ bitmap = <<>>
  /\ x = 0
  /\ y = 0
  /\ lastWrites = {}
  /\ CliIdle

NextPipeline == ScaleStep \/ ResampleStep \/ DitherBegin \/ DitherStep

SpecPipeline == InitPipeline /\ [][NextPipeline]_vars

\* The size computation alone, over a range of image widths.
MaxImgWidth == 64

ImgWidths == 1 .. MaxImgWidth \cup {592}

ResampleMaxWidths == {8, 16, 24, 384}

InitResample ==
  /\ pcD = "load"
  /\ \E w \in ImgWidths, h \in 1 .. 2 : img = Image(w, h, 1, "black")
  /\ max_width \in ResampleMaxWidths
  /\ scale = FOne
  /\ width = 0
  /\ height = 0
  /\ grayscale = <<>>
  /\ working_copy = <<>>
  /\ bitmap = <<>>
  /\ x = 0
  /\ y = 0
  /\ lastWrites = {}
  /\ CliIdle

NextResample == ScaleStep

SpecResample == InitResample /\ [][NextResample]_vars

(***************************************************************************)
(* Printer (src/printer.hpp).                                              *)
(***************************************************************************)
\* Alignment { LEFT, CENTER, RIGHT } and BitmapMode { NORMAL, WIDE, TALL, HUGE }
Alignments == {0, 1, 2}

NORMAL == 0

\* static_cast<uint8_t>
U8(n) == n % 256

reset == <<27, 64>>

set_print_text_type(print_type) == <<27, 33, print_type>>

feed_lines(n) == <<27, 100, n>>

set_allignment(allign) == <<27, 97, allign>>

\* The 8-byte header print_bitmap builds.
BitmapHeader(mode, w, h) ==
  LET width_first   == (w \div 8) % 256
      width_second  == ((w \div 8) \div 256) % 256
      height_first  == h % 256
      height_second == (h \div 256) % 256
  IN <<29, 118, 48, mode, width_first, width_second, height_first,
       height_second>>

\* optbit | mask, for a one-bit mask.
enable(optbit, mask) ==
  IF (optbit \div mask) % 2 = 1 THEN optbit ELSE optbit + mask

enable_bold(optbit) == enable(optbit, 8)

enable_double_height(optbit) == enable(optbit, 16)

enable_double_wide(optbit) == enable(optbit, 32)

enable_underline(optbit) == enable(optbit, 128)

\* cleanup(): release and close the handle, exit the context.
Cleanup(c, d, u) ==
  LET u1 == IF d # "nullptr"
            THEN [u EXCEPT !.claimed = FALSE, !.handleOpen = FALSE] ELSE u
      u2 == IF c # "nullptr" THEN [u1 EXCEPT !.ctxLive = FALSE] ELSE u1
  IN [ctx |-> "nullptr", dev_handle |-> "nullptr", usb |-> u2]

\* ~Printer(): the same statements as cleanup().
Destroy(c, d, u) ==
  LET u1 == IF d # "nullptr"
            THEN [u EXCEPT !.claimed = FALSE, !.handleOpen = FALSE] ELSE u
      u2 == IF c # "nullptr" THEN [u1 EXCEPT !.ctxLive = FALSE] ELSE u1
  IN [ctx |-> "nullptr", dev_handle |-> "nullptr", usb |-> u2]

\* Variant: the loop test inverted on the byte count.
FlushStopsOnData(ret, transferred) == ret = 0 /\ transferred = 0

\* The flush loop of write_bytes goes on while (ret == 0 && transferred > 0).
FlushContinues(ret, transferred) == ret = 0 /\ transferred > 0

\* Variant: a short write is not treated as a failure.
WriteFailsErrorOnly(ret, transferred, size) == ret # 0

\* write_bytes throws if (ret != 0 || transferred != data.size()).
WriteFails(ret, transferred, size) == ret # 0 \/ transferred # size

\* A throw inside main's try block: the stack unwinds to the catch.
Throw ==
  /\ exc' = TRUE
  /\ pc' = "unwind"

\* open_usb, lines 31-34: libusb_init.
UsbInit ==
  /\ pc = "open_usb"
  /\ \E ok \in BOOLEAN :
       IF ok
       THEN /\ ctx' = "ctx"
            /\ usb' = [usb EXCEPT !.ctxLive = TRUE]
            /\ pc' = "usb_list"
            /\ exc' = exc
       ELSE /\ ctx' = "nullptr"
            /\ usb' = usb
            /\ Throw
  /\ UNCHANGED <<dvars, ivars, prog, status, opts, lines, line, first_line, job,
                 evalOrder, dev_handle, wb, calls, returned, wire>>

\* open_usb, lines 36-60: the device list and the search for the printer.
UsbGetDeviceList ==
  /\ pc = "usb_list"
  /\ \E r \in {"error", "absent", "present"} :
       IF r = "present"
       THEN /\ usb' = [usb EXCEPT !.listHeld = TRUE]
            /\ ctx' = ctx
            /\ pc' = "usb_open"
            /\ exc' = exc
       ELSE /\ usb' = [usb EXCEPT !.ctxLive = FALSE, !.listHeld = FALSE]
            /\ ctx' = "nullptr"
            /\ Throw
  /\ UNCHANGED <<dvars, ivars, prog, status, opts, lines, line, first_line, job,
                 evalOrder, dev_handle, wb, calls, returned, wire>>

\* open_usb, lines 62-69: libusb_open, then the list is freed.
UsbOpen ==
  /\ pc = "usb_open"
  /\ \E ok \in BOOLEAN :
       IF ok
       THEN /\ dev_handle' = "handle"
            /\ usb' = [usb EXCEPT !.handleOpen = TRUE, !.listHeld = FALSE]
            /\ ctx' = ctx
            /\ pc' = "usb_driver"
            /\ exc' = exc
       ELSE /\ dev_handle' = "nullptr"
            /\ usb' = [usb EXCEPT !.ctxLive = FALSE, !.listHeld = FALSE]
            /\ ctx' = "nullptr"
            /\ Throw
  /\ UNCHANGED <<dvars, ivars, prog, status, opts, lines, line, first_line, job,
                 evalOrder, wb, calls, returned, wire>>

\* open_usb, lines 71-78: a kernel driver bound to interface 0 is detached.
UsbKernelDriver ==
  /\ pc = "usb_driver"
  /\ \E active \in BOOLEAN, detached \in BOOLEAN :
       IF ~active
       THEN /\ UNCHANGED <<ctx, dev_handle, usb, exc>>
            /\ pc' = "usb_claim"
       ELSE IF detached
       THEN /\ usb' = [usb EXCEPT !.detached = TRUE]
            /\ UNCHANGED <<ctx, dev_handle, exc>>
            /\ pc' = "usb_claim"
       ELSE /\ ctx' = Cleanup(ctx, dev_handle, usb).ctx
            /\ dev_handle' = Cleanup(ctx, dev_handle, usb).dev_handle
            /\ usb' = Cleanup(ctx, dev_handle, usb).usb
            /\ Throw
  /\ UNCHANGED <<dvars, ivars, prog, status, opts, lines, line, first_line, job,
                 evalOrder, wb, calls, returned, wire>>

\* open_usb, lines 80-85: libusb_claim_interface.
UsbClaim ==
  /\ pc = "usb_claim"
  /\ \E ok \in BOOLEAN :
       IF ok
       THEN /\ usb' = [usb EXCEPT !.claimed = TRUE]
            /\ UNCHANGED <<ctx, dev_handle, exc>>
            /\ pc' = "reset1"
       ELSE /\ ctx' = Cleanup(ctx, dev_handle, usb).ctx
            /\ dev_handle' = Cleanup(ctx, dev_handle, usb).dev_handle
            /\ usb' = Cleanup(ctx, dev_handle, usb).usb
            /\ Throw
  /\ UNCHANGED <<dvars, ivars, prog, status, opts, lines, line, first_line, job,
                 evalOrder, wb, calls, returned, wire>>

\* Entry of write_bytes(data).
Call(kind, data) ==
  /\ ~wb.active
  /\ wb' = [active |-> TRUE, kind |-> kind, data |-> data, phase |-> "flush",
            reads |-> 0, lastIn |-> <<>>]
  /\ calls' = calls + 1
  /\ UNCHANGED <<dvars, ivars, prog, pc, exc, status, opts, lines, line, job,
                 evalOrder, ctx, dev_handle, usb, returned, wire>>

\* Inbound reads that return data, per write_bytes call.
MaxInboundReads == 2

\* The results a bulk read of the inbound endpoint can have: ret 0 with data,
\* ret 0 with no data, an error (a timeout) with or without data.
ReadResults(reads) ==
  {<<0, 0>>, <<-7, 0>>, <<-7, 1>>}
    \cup (IF reads < MaxInboundReads THEN {<<0, 1>>} ELSE {})

\* write_bytes, lines 91-94: one pass of the do-while flush loop.
WbFlush ==
  /\ wb.active
  /\ wb.phase = "flush"
  /\ \E r \in ReadResults(wb.reads) :
       wb' = [wb EXCEPT !.lastIn = r,
                        !.reads = IF r = <<0, 1>> THEN @ + 1 ELSE @,
                        !.phase = IF FlushContinues(r[1], r[2])
                                  THEN "flush" ELSE "out"]
  /\ UNCHANGED <<dvars, ivars, prog, pc, exc, status, opts, lines, line,
                 first_line, job, evalOrder, ctx, dev_handle, usb, calls,
                 returned, wire>>

\* The results the outbound bulk transfer can have: all bytes written, a
\* short write, an error.
WriteResults(size) ==
  {<<0, size>>, <<-7, 0>>} \cup (IF size > 0 THEN {<<0, size - 1>>} ELSE {})

\* Variant: the paper is fed before the bitmap is sent.
ImageFlowFeedFirst(p) ==
  CASE p = "reset1"  -> "align"
    [] p = "align"   -> "feed"
    [] p = "feed"    -> "bitmap"
    [] p = "bitmap"  -> "bitmap2"
    [] p = "bitmap2" -> "reset2"
    [] p = "reset2"  -> "return0"

\* The statement main runs after the call at pc returns (src/main.cpp).
ImageFlow(p) ==
  CASE p = "reset1"  -> "align"
    [] p = "align"   -> "bitmap"
    [] p = "bitmap"  -> "bitmap2"
    [] p = "bitmap2" -> "feed"
    [] p = "feed"    -> "reset2"
    [] p = "reset2"  -> "return0"

\* The statement main runs after the call at pc returns (src/print_text.cpp).
TextFlow(p, format) ==
  CASE p = "reset1"     -> "align"
    [] p = "align"      -> IF format # 0 THEN "style" ELSE "getline"
    [] p = "style"      -> "getline"
    [] p = "write_nl"   -> "write_line"
    [] p = "write_line" -> "getline"
    [] p = "final_nl"   -> "feed"
    [] p = "feed"       -> "reset2"
    [] p = "reset2"     -> "return0"

\* print_text.cpp lines 107-111: the formatting byte.
Format(o) ==
  LET f1 == IF o.bold THEN enable_bold(0) ELSE 0
      f2 == IF o.underline THEN enable_underline(f1) ELSE f1
      f3 == IF o.double_width THEN enable_double_wide(f2) ELSE f2
  IN IF o.double_height THEN enable_double_height(f3) ELSE f3

\* write_bytes, lines 96-103: the outbound transfer, then return or throw.
WbOut ==
  /\ wb.active
  /\ wb.phase = "out"
  /\ \E r \in WriteResults(Len(wb.data)) :
       /\ wire' = Append(wire, [kind |-> wb.kind, data |-> wb.data,
                                ret |-> r[1], transferred |-> r[2],
                                call |-> calls, returnedBefore |-> returned])
       /\ IF WriteFails(r[1], r[2], Len(wb.data))
          THEN Throw
          ELSE /\ exc' = exc
               /\ pc' = IF prog = "image" THEN ImageFlow(pc)
                        ELSE TextFlow(pc, Format(opts))
  /\ wb' = NoCall
  /\ returned' = returned + 1
  /\ UNCHANGED <<dvars, ivars, prog, status, opts, lines, line, first_line, job,
                 evalOrder, ctx, dev_handle, usb, calls>>

(***************************************************************************)
(* The two main functions.                                                 *)
(***************************************************************************)
\* main.cpp lines 153-160: the image is loaded and processed, or main returns 1.
MainLoad ==
  /\ pc = "load"
  /\ \E ok \in BOOLEAN :
       IF ok THEN pc' = "open_usb" /\ status' = status
       ELSE pc' = "exited" /\ status' = 1
  /\ UNCHANGED <<dvars, ivars, prog, exc, opts, lines, line, first_line, job,
                 evalOrder, ctx, dev_handle, usb, wb, calls, returned, wire>>

\* pos.reset(), at the start and at the end of both programs.
Reset ==
  /\ pc \in {"reset1", "reset2"}
  /\ Call("reset", reset)
  /\ UNCHANGED first_line

\* pos.set_alignment(...): CENTER in main.cpp, the option in print_text.cpp.
SetAlignment ==
  /\ pc = "align"
  /\ Call("alignment",
          set_allignment(IF prog = "image" THEN 1 ELSE opts.alignment))
  /\ UNCHANGED first_line

\* print_text.cpp lines 113-115.
SetPrintTextType ==
  /\ pc = "style"
  /\ Call("style", set_print_text_type(Format(opts)))
  /\ UNCHANGED first_line

\* print_text.cpp line 121: std::getline.
GetLine ==
  /\ pc = "getline"
  /\ ~wb.active
  /\ IF lines = <<>>
     THEN /\ pc' = "final_nl"
          /\ UNCHANGED <<lines, line>>
     ELSE /\ line' = Head(lines)
          /\ lines' = Tail(lines)
          /\ pc' = IF first_line THEN "write_line" ELSE "write_nl"
  /\ UNCHANGED <<dvars, ivars, prog, exc, status, opts, first_line, job,
                 evalOrder, ctx, dev_handle, usb, wb, calls, returned, wire>>

\* print_text.cpp lines 122-124.
WriteNewline ==
  /\ pc = "write_nl"
  /\ Call("text", <<10>>)
  /\ UNCHANGED first_line

\* print_text.cpp lines 125-126.  first_line is cleared after the call returns;
\* nothing reads it in between, and a throw leaves the loop for good.
WriteLine ==
  /\ pc = "write_line"
  /\ Call("text", line)
  /\ first_line' = FALSE

\* print_text.cpp line 130.
WriteFinalNewlines ==
  /\ pc = "final_nl"
  /\ Call("text", <<10, 10>>)
  /\ UNCHANGED first_line

\* pos.feed_lines(5) in main.cpp, pos.feed_lines(feed_lines) in print_text.cpp;
\* the parameter is a uint8_t.
FeedLines ==
  /\ pc = "feed"
  /\ Call("feed", feed_lines(U8(IF prog = "image" THEN 5 ELSE opts.feed_lines)))
  /\ UNCHANGED first_line

\* print_bitmap, line 152: write_bytes(data) + write_bytes(bitmap).  The two
\* calls are operands of +, so the build decides which one runs first.
\* main.cpp calls the bitmap operation print_bitmap_lines and the alignment
\* operation set_alignment; printer.hpp defines them as print_bitmap and
\* set_allignment.
PrintBitmapFirst ==
  /\ pc = "bitmap"
  /\ IF evalOrder = "lr"
     THEN Call("bitmap_header", BitmapHeader(job.mode, job.width, job.height))
     ELSE Call("bitmap_payload", job.bitmap)
  /\ UNCHANGED first_line

PrintBitmapSecond ==
  /\ pc = "bitmap2"
  /\ IF evalOrder = "lr"
     THEN Call("bitmap_payload", job.bitmap)
     ELSE Call("bitmap_header", BitmapHeader(job.mode, job.width, job.height))
  /\ UNCHANGED first_line

\* pos goes out of scope: on return 0, or while an exception unwinds.
Destructor ==
  /\ pc \in {"unwind", "return0"}
  /\ ctx' = Destroy(ctx, dev_handle, usb).ctx
  /\ dev_handle' = Destroy(ctx, dev_handle, usb).dev_handle
  /\ usb' = Destroy(ctx, dev_handle, usb).usb
  /\ pc' = IF exc THEN "catch" ELSE "exited"
  /\ status' = IF exc THEN status ELSE 0
  /\ UNCHANGED <<dvars, ivars, prog, exc, opts, lines, line, first_line, job,
                 evalOrder, wb, calls, returned, wire>>

\* catch (const std::exception &e): return 1.
Catch ==
  /\ pc = "catch"
  /\ exc' = FALSE
  /\ status' = 1
  /\ pc' = "exited"
  /\ UNCHANGED <<dvars, ivars, prog, opts, lines, line, first_line, job,
                 evalOrder, ctx, dev_handle, usb, wb, calls, returned, wire>>

\* Inputs of the programs.
MaxLines == 2

LineTexts == {<<>>, <<72, 105>>}

RECURSIVE SeqsUpTo(_, _)
SeqsUpTo(S, n) ==
  IF n = 0 THEN {<<>>}
  ELSE LET shorter == SeqsUpTo(S, n - 1)
       IN shorter \cup {Append(t, e) : t \in shorter, e \in S}

FeedCounts == {2, 260}

OptionSets ==
  [bold : BOOLEAN, underline : BOOLEAN, double_width : BOOLEAN,
   double_height : BOOLEAN, alignment : Alignments, feed_lines : FeedCounts]

\* The bitmaps main hands over: (width / 8) * height bytes.
JobSizes == {<<8, 0>>, <<8, 1>>, <<16, 2>>, <<384, 1>>, <<8, 258>>}

Job(w, h) ==
  [mode |-> NORMAL, width |-> w, height |-> h,
   bitmap |-> [i \in 1 .. (w \div 8) * h |-> IF i % 2 = 1 THEN 170 ELSE 85]]

ImageIdle ==
  /\ pcD = "none"
  /\ width = 0
  /\ height = 0
  /\ grayscale = <<>>
  /\ working_copy = <<>>
  /\ bitmap = <<>>
  /\ x = 0
  /\ y = 0
  /\ lastWrites = {}
  /\ img = NoImage
  /\ max_width = 0
  /\ scale = FOne

InitCli ==
  /\ ImageIdle
  /\ prog \in {"image", "text"}
  /\ IF prog = "image"
     THEN /\ pc = "load"
          /\ \E d \in JobSizes : job = Job(d[1], d[2])
          /\ evalOrder \in {"lr", "rl"}
          /\ opts = NoOpts
          /\ lines = <<>>
     ELSE /\ pc = "open_usb"
          /\ job = NoJob
          /\ evalOrder = "lr"
          /\ opts \in OptionSets
          /\ lines \in SeqsUpTo(LineTexts, MaxLines)
  /\ exc = FALSE
  /\ status = "running"
  /\ line = <<>>
  /\ first_line = TRUE
  /\ ctx = "nullptr"
  /\ dev_handle = "nullptr"
  /\ usb = NoUsb
  /\ wb = NoCall
  /\ calls = 0
  /\ returned = 0
  /\ wire = <<>>

Next ==
  \/ MainLoad
  \/ UsbInit
  \/ UsbGetDeviceList
  \/ UsbOpen
  \/ UsbKernelDriver
  \/ UsbClaim
  \/ Reset
  \/ SetAlignment
  \/ SetPrintTextType
  \/ GetLine
  \/ WriteNewline
  \/ WriteLine
  \/ WriteFinalNewlines
  \/ FeedLines
  \/ PrintBitmapFirst
  \/ PrintBitmapSecond
  \/ WbFlush
  \/ WbOut
  \/ Destructor
  \/ Catch

Spec == InitCli /\ [][Next]_vars

(***************************************************************************)
(* Properties.                                                             *)
(***************************************************************************)
Kinds(w) == [i \in 1 .. Len(w) |-> w[i].kind]

BodyKinds(p) ==
  IF p = "image" THEN {"bitmap_header", "bitmap_payload"} ELSE {"text"}

\* The order reset, alignment, style, bitmap or text, feed, reset as an
\* automaton over the frames; -1 rejects.
StageStep(st, kind, p) ==
  CASE st = 0 /\ kind = "reset" -> 1
    [] st = 1 /\ kind = "alignment" -> 2
    [] st = 2 /\ kind = "style" /\ p = "text" -> 3
    [] st \in {2, 3, 4} /\ kind \in BodyKinds(p) -> 4
    [] st = 4 /\ kind = "feed" -> 5
    [] st = 5 /\ kind = "reset" -> 6
    [] OTHER -> -1

RECURSIVE Stage(_, _, _)
Stage(st, ks, p) ==
  IF ks = <<>> THEN st ELSE Stage(StageStep(st, Head(ks), p), Tail(ks), p)

\* C1: the frames reach the transport in the order reset, alignment, style
\* (text program only), bitmap or text, feed, reset, and the outbound write of
\* a frame starts only when the write_bytes calls of all earlier frames have
\* returned.
C1_FramesInProgramOrder ==
  /\ Stage(0, Kinds(wire), prog) >= 0
  /\ \A i \in 1 .. Len(wire) :
       wire[i].call = i /\ wire[i].returnedBefore = i - 1

C1_Witness ==
  /\ pc = "exited"
  /\ status = 0
  /\ Stage(0, Kinds(wire), prog) = 6
  /\ \E i \in 1 .. Len(wire) : wire[i].kind \in {"style", "bitmap_payload"}

Failed(e) == e.ret # 0 \/ e.transferred # Len(e.data)

\* C2: after a failed transport write (an error or a short write) no later
\* frame is written and no further write_bytes call is made, the exception
\* unwinds to the catch and the program exits with status 1.
C2_FailFast ==
  \A i \in 1 .. Len(wire) :
    Failed(wire[i]) =>
      /\ i = Len(wire)
      /\ calls = i
      /\ ~wb.active
      /\ pc \in {"unwind", "catch", "exited"}
      /\ pc = "exited" => status = 1

C2_Witness ==
  /\ pc = "exited"
  /\ status = 1
  /\ Len(wire) >= 3
  /\ wire[Len(wire)].ret = 0
  /\ wire[Len(wire)].transferred < Len(wire[Len(wire)].data)

\* C3: when the program has exited, whatever the path, the interface is
\* released, the handle closed, the context exited, the device list freed and
\* a detached kernel driver reattached.
C3_AllReleased == pc = "exited" => usb = NoUsb

\* C4: an outbound write is issued only by a write_bytes call whose flush loop
\* has read the inbound endpoint at least once and whose latest read failed or
\* returned zero bytes.
C4_FlushBeforeWrite ==
  [][Len(wire') > Len(wire) =>
       /\ wb.active
       /\ wb.phase = "out"
       /\ wb.lastIn # <<>>
       /\ ~(wb.lastIn[1] = 0 /\ wb.lastIn[2] > 0)]_vars

C4_Witness ==
  /\ Len(wire) >= 1
  /\ wb.active
  /\ wb.phase = "out"
  /\ wb.reads = MaxInboundReads
  /\ wb.lastIn = <<0, 0>>

\* C5: the payload of a bitmap is written right after the 8-byte header
\* {0x1d, 0x76, 0x30, mode, width/8 low, width/8 high, height low, height high}
\* and never before it.
C5_HeaderThenPayload ==
  \A i \in 1 .. Len(wire) :
    wire[i].kind = "bitmap_payload" =>
      /\ i > 1
      /\ wire[i - 1].kind = "bitmap_header"
      /\ wire[i - 1].data =
           <<29, 118, 48, job.mode, (job.width \div 8) % 256,
             (job.width \div 8) \div 256, job.height % 256,
             job.height \div 256>>
      /\ wire[i].data = job.bitmap

LargestMultipleOf8(n) == (n \div 8) * 8

\* C6: the resampled width is the largest multiple of 8 not exceeding the
\* image width when that is at most max_width, the largest multiple of 8 not
\* exceeding max_width otherwise, and 8 instead of 0.
C6_ResampledWidth ==
  pcD = "resample" =>
    LET bound == IF img.width <= max_width THEN img.width ELSE max_width
    IN width = IF LargestMultipleOf8(bound) = 0 THEN 8
               ELSE LargestMultipleOf8(bound)

CeilDiv8(n) == IF n % 8 = 0 THEN n \div 8 ELSE n \div 8 + 1

MidGray8x2 == width = 8 /\ height = 2 /\ grayscale = Uniform(8, 2, FHalf)

\* C8 as stated: the uniform 0.5 raster of width 8 and height 2 dithers to an
\* all-white output.
C8_MidGrayAllWhite ==
  (pcD = "done" /\ MidGray8x2) => \A i \in DOMAIN bitmap : bitmap[i] = 0

\* C8: the uniform 0.5 raster of width 8 and height 2 dithers to the bytes
\* 0xAA, 0x55: the first sample, 0.5, is not > 0.5, quantizes to 0.0 and is
\* printed black.
C8_MidGrayTieIsBlack ==
  (pcD = "done" /\ MidGray8x2) => bitmap = (0 :> 170 @@ 1 :> 85)

C8_Witness == pcD = "done" /\ MidGray8x2 /\ bitmap[0] >= 128

Checkerboard4x4 ==
  /\ max_width = 8
  /\ img \in {Image(4, 4, 1, "checker0"), Image(4, 4, 1, "checker1")}

\* C9 as stated: the 4x4 checkerboard at max_width 8 packs to one byte per row,
\* the rows alternating 0b10101010 and 0b01010101.
C9_CheckerboardAlternatingBits ==
  (pcD = "done" /\ Checkerboard4x4) =>
    /\ width = 8
    /\ \A r \in 0 .. height - 1 : bitmap[r] \in {170, 85}
    /\ \A r \in 0 .. height - 2 : bitmap[r] # bitmap[r + 1]

\* C9: the 4x4 checkerboard at max_width 8 becomes an 8x4 raster whose columns
\* 4..7 repeat source column 3, dithers with no diffusion error and packs to
\* one byte per row, the rows alternating 0b10100000 and 0b01011111.
C9_CheckerboardClamped ==
  (pcD = "done" /\ Checkerboard4x4) =>
    /\ width = 8
    /\ height = 4
    /\ \A i \in 0 .. 31 :
         grayscale[i] =
           IF img.pixels[(i \div 8) * 4 + (IF i % 8 > 3 THEN 3 ELSE i % 8)] = 0
           THEN FZero ELSE FOne
    /\ working_copy = grayscale
    /\ bitmap = IF img.pixels[0] = 0
                THEN (0 :> 160 @@ 1 :> 95 @@ 2 :> 160 @@ 3 :> 95)
                ELSE (0 :> 95 @@ 1 :> 160 @@ 2 :> 95 @@ 3 :> 160)

C9_Witness ==
  /\ pcD = "done"
  /\ max_width = 8
  /\ img = Image(4, 4, 1, "checker0")
  /\ bitmap[0] = 160

KernelOffsets == {<<1, 0>>, <<-1, 1>>, <<0, 1>>, <<1, 1>>}

\* C10: one iteration of dither_image at pixel (x, y) adds error to exactly
\* those of (x+1,y), (x-1,y+1), (x,y+1), (x+1,y+1) that lie inside the raster:
\* each index written is inside [0, width*height), is the index of the
\* coordinate meant, belongs to a pixel not yet visited, no other sample
\* changes, and the caller's raster is left unchanged.
C10_DiffusionStaysInRaster ==
  [][pcD = "dither" =>
       /\ grayscale' = grayscale
       /\ \A t \in lastWrites' :
            /\ t.at \in 0 .. width * height - 1
            /\ t.tx \in 0 .. width - 1
            /\ t.ty \in 0 .. height - 1
            /\ t.at = t.ty * width + t.tx
            /\ <<t.tx - x, t.ty - y>> \in KernelOffsets
            /\ t.at > y * width + x
       /\ \A d \in KernelOffsets :
            (x + d[1] \in 0 .. width - 1 /\ y + d[2] \in 0 .. height - 1) =>
              \E t \in lastWrites' : t.tx = x + d[1] /\ t.ty = y + d[2]
       /\ \A i \in DOMAIN working_copy :
            working_copy'[i] # working_copy[i] =>
              \E t \in lastWrites' : t.at = i]_vars

C10_Witness ==
  /\ pcD = "dither"
  /\ x = 0
  /\ y = 1
  /\ width >= 2
  /\ Cardinality(lastWrites) = 2
  /\ \E i \in DOMAIN working_copy : working_copy[i] # grayscale[i]
  /\ \A t \in lastWrites : t.ty = 1 /\ t.tx \in {width - 2, width - 1}

====
